---- MODULE Spec2Model ----
(***************************************************************************)
(* Fabric_method.py: a Song record and four successive versions of a       *)
(* serializer that turns a Song into JSON or XML text.                     *)
(*                                                                         *)
(* Text is a sequence of one-character strings, so that escaping and the  *)
(* exact output can be compared character by character.  A Python value   *)
(* is a tagged record: a str, an int or None.                              *)
(***************************************************************************)
EXTENDS Integers, Sequences, FiniteSets, TLC

VARIABLES song, last, out

vars == <<song, last, out>>

(***************************************************************************)
(* Bounds of the model.                                                    *)
(***************************************************************************)
\* Largest number of characters a Song's three fields hold together.
MaxTotalLen == 2

\* The characters texts are built from: a plain letter, the two characters
\* json.dumps escapes with a backslash, a control character, and the
\* characters ElementTree escapes as entities.
Alphabet == {"a", "\"", "\\", "\n", "&", "<"}

\* The integer identifiers tried: zero, several digits, negative.
IntIds == {0, 42, -7}

\* The format values tried: the two recognized tags, another name, and
\* another spelling of a recognized tag.
Formats == {"JSON", "XML", "YAML", "json"}

Recognized == {"JSON", "XML"}

(***************************************************************************)
(* Python values.                                                          *)
(***************************************************************************)
PyStr(s) == [t |-> "str", s |-> s, n |-> 0]
PyInt(n) == [t |-> "int", s |-> <<>>, n |-> n]
PyNone == [t |-> "none", s |-> <<>>, n |-> 0]

\* Outcome of a call: a returned str, or a raised exception with its args[0].
Return(text) == [kind |-> "return", value |-> text, exc |-> "", arg |-> ""]
Raise(exc, arg) == [kind |-> "raise", value |-> <<>>, exc |-> exc, arg |-> arg]
NoOutcome == [kind |-> "none", value |-> <<>>, exc |-> "", arg |-> ""]

RECURSIVE Concat(_)
Concat(parts) ==
    IF parts = <<>> THEN <<>> ELSE Head(parts) \o Concat(Tail(parts))

(***************************************************************************)
(* class Song                                                              *)
(***************************************************************************)
\* Song.__init__ with title and artist stored in each other's attribute.
Song_swapped(song_id, title, artist) ==
    [song_id |-> song_id, title |-> artist, artist |-> title]

Song(song_id, title, artist) ==
    [song_id |-> song_id, title |-> title, artist |-> artist]

(***************************************************************************)
(* json.dumps(dict) with the default separators and ensure_ascii.          *)
(***************************************************************************)
Digit(d) == <<"0", "1", "2", "3", "4", "5", "6", "7", "8", "9">>[d + 1]

RECURSIVE NatRepr(_)
NatRepr(n) == IF n < 10 THEN <<Digit(n)>> ELSE NatRepr(n \div 10) \o <<Digit(n % 10)>>

int_repr(n) == IF n < 0 THEN <<"-">> \o NatRepr(-n) ELSE NatRepr(n)

json_escape_char(c) ==
    CASE c = "\"" -> <<"\\", "\"">>
      [] c = "\\" -> <<"\\", "\\">>
      [] c = "\n" -> <<"\\", "n">>
      [] OTHER -> <<c>>

json_encode_str(s) ==
    <<"\"">> \o Concat([i \in 1..Len(s) |-> json_escape_char(s[i])]) \o <<"\"">>

json_encode_value(v) ==
    IF v.t = "int" THEN int_repr(v.n)
    ELSE IF v.t = "none" THEN <<"n", "u", "l", "l">>
    ELSE json_encode_str(v.s)

json_item(kv) == json_encode_str(kv[1]) \o <<":", " ">> \o json_encode_value(kv[2])

RECURSIVE json_items(_)
json_items(payload) ==
    IF payload = <<>> THEN <<>>
    ELSE IF Len(payload) = 1 THEN json_item(payload[1])
    ELSE json_item(payload[1]) \o <<",", " ">> \o json_items(Tail(payload))

\* payload: the dict as its items in insertion order, <<key, value>>.
json_dumps(payload) == Return(<<"{">> \o json_items(payload) \o <<"}">>)

(***************************************************************************)
(* xml.etree.ElementTree: Element, SubElement, tostring(encoding='unicode')*)
(***************************************************************************)
Element(tag, attrib) == [tag |-> tag, attrib |-> attrib, text |-> PyNone, children |-> <<>>]

\* SubElement(parent, tag) followed by the assignment child.text = text.
SubElementWithText(parent, tag, text) ==
    [parent EXCEPT !.children = Append(@, [Element(tag, <<>>) EXCEPT !.text = text])]

xml_escape_cdata_char(c) ==
    CASE c = "&" -> <<"&", "a", "m", "p", ";">>
      [] c = "<" -> <<"&", "l", "t", ";">>
      [] c = ">" -> <<"&", "g", "t", ";">>
      [] OTHER -> <<c>>

xml_escape_attrib_char(c) ==
    CASE c = "&" -> <<"&", "a", "m", "p", ";">>
      [] c = "<" -> <<"&", "l", "t", ";">>
      [] c = ">" -> <<"&", "g", "t", ";">>
      [] c = "\"" -> <<"&", "q", "u", "o", "t", ";">>
      [] c = "\n" -> <<"&", "#", "1", "0", ";">>
      [] OTHER -> <<c>>

_escape_cdata(s) == Concat([i \in 1..Len(s) |-> xml_escape_cdata_char(s[i])])

_escape_attrib(s) == Concat([i \in 1..Len(s) |-> xml_escape_attrib_char(s[i])])

xml_attribs(attrib) ==
    Concat([i \in 1..Len(attrib) |->
              <<" ">> \o attrib[i][1] \o <<"=", "\"">> \o _escape_attrib(attrib[i][2].s) \o <<"\"">>])

\* An element without children: <tag>text</tag>, or <tag /> when the text is
\* None or empty.
xml_leaf(e) ==
    IF e.text.t = "str" /\ e.text.s # <<>>
    THEN <<"<">> \o e.tag \o xml_attribs(e.attrib) \o <<">">> \o _escape_cdata(e.text.s)
         \o <<"<", "/">> \o e.tag \o <<">">>
    ELSE <<"<">> \o e.tag \o xml_attribs(e.attrib) \o <<" ", "/", ">">>

_serialize_xml(e) ==
    IF e.children = <<>> THEN xml_leaf(e)
    ELSE <<"<">> \o e.tag \o xml_attribs(e.attrib) \o <<">">>
         \o (IF e.text.t = "str" THEN _escape_cdata(e.text.s) ELSE <<>>)
         \o Concat([i \in 1..Len(e.children) |-> xml_leaf(e.children[i])])
         \o <<"<", "/">> \o e.tag \o <<">">>

\* Every attribute value and every text must be a str (a text may be None).
xml_serializable(e) ==
    /\ \A i \in 1..Len(e.attrib) : e.attrib[i][2].t = "str"
    /\ e.text.t \in {"str", "none"}

et_tostring(e) ==
    IF xml_serializable(e) /\ \A i \in 1..Len(e.children) : xml_serializable(e.children[i])
    THEN Return(_serialize_xml(e))
    ELSE Raise("TypeError", "cannot serialize %r (type %s)")

(***************************************************************************)
(* Names the serializers write into their output.                          *)
(***************************************************************************)
K_id == <<"i", "d">>
K_title == <<"t", "i", "t", "l", "e">>
K_artist == <<"a", "r", "t", "i", "s", "t">>
K_song == <<"s", "o", "n", "g">>

(***************************************************************************)
(* class SongSerializerBad                                                 *)
(***************************************************************************)
SongSerializerBad_serialize(s, format) ==
    IF format = "JSON"
    THEN json_dumps(<< <<K_id, s.song_id>>, <<K_title, s.title>>, <<K_artist, s.artist>> >>)
    ELSE IF format = "XML"
    THEN et_tostring(
             SubElementWithText(
                 SubElementWithText(Element(K_song, << <<K_id, s.song_id>> >>), K_title, s.title),
                 K_artist, s.artist))
    ELSE Raise("ValueError", format)

(***************************************************************************)
(* class SongSerializerWihoutSolidDependecies                              *)
(***************************************************************************)
WihoutSolidDependecies_serialize_to_json(s) ==
    json_dumps(<< <<K_id, s.song_id>>, <<K_title, s.title>>, <<K_artist, s.artist>> >>)

WihoutSolidDependecies_serialize_to_xml(s) ==
    et_tostring(
        SubElementWithText(
            SubElementWithText(Element(K_song, << <<K_id, s.song_id>> >>), K_title, s.title),
            K_artist, s.artist))

WihoutSolidDependecies_serialize(s, format) ==
    IF format = "JSON" THEN WihoutSolidDependecies_serialize_to_json(s)
    ELSE IF format = "XML" THEN WihoutSolidDependecies_serialize_to_xml(s)
    ELSE Raise("ValueError", format)

(***************************************************************************)
(* class SongSerializerBasicFabric                                         *)
(***************************************************************************)
\* What _get_serializer gives: the bound method it returns, or the exception
\* it raises.
Resolved(fn) == [kind |-> "return", fn |-> fn, exc |-> "", arg |-> ""]
Unresolved(exc, arg) == [kind |-> "raise", fn |-> "", exc |-> exc, arg |-> arg]

\* _serialize_to_json with the title and artist values under each other's key.
BasicFabric_serialize_to_json_swapped(s) ==
    json_dumps(<< <<K_id, s.song_id>>, <<K_title, s.artist>>, <<K_artist, s.title>> >>)

BasicFabric_serialize_to_json(s) ==
    json_dumps(<< <<K_id, s.song_id>>, <<K_title, s.title>>, <<K_artist, s.artist>> >>)

\* _serialize_to_xml writing into a buffer that is never cleared: the text of
\* the previous result comes first.
BasicFabric_serialize_to_xml_buffered(s) ==
    LET r == et_tostring(
                 SubElementWithText(
                     SubElementWithText(Element(K_song, << <<K_id, s.song_id>> >>), K_title, s.title),
                     K_artist, s.artist))
    IN  IF r.kind = "return" /\ out.kind = "return" THEN Return(out.value \o r.value) ELSE r

BasicFabric_serialize_to_xml(s) ==
    et_tostring(
        SubElementWithText(
            SubElementWithText(Element(K_song, << <<K_id, s.song_id>> >>), K_title, s.title),
            K_artist, s.artist))

\* _get_serializer raising ValueError() without the format.
BasicFabric_get_serializer_notag(format) ==
    IF format = "JSON" THEN Resolved("_serialize_to_json")
    ELSE IF format = "XML" THEN Resolved("_serialize_to_xml")
    ELSE Unresolved("ValueError", "")

BasicFabric_get_serializer(format) ==
    IF format = "JSON" THEN Resolved("_serialize_to_json")
    ELSE IF format = "XML" THEN Resolved("_serialize_to_xml")
    ELSE Unresolved("ValueError", format)

\* Calling the bound method _get_serializer returned.
BasicFabric_call(fn, s) ==
    IF fn = "_serialize_to_json" THEN BasicFabric_serialize_to_json(s)
    ELSE BasicFabric_serialize_to_xml(s)

BasicFabric_serialize(s, format) ==
    LET serializer == BasicFabric_get_serializer(format)
    IN  IF serializer.kind = "raise"
        THEN Raise(serializer.exc, serializer.arg)
        ELSE BasicFabric_call(serializer.fn, s)

(***************************************************************************)
(* class SongSerializerStatiocBasicFabric, its functions called on the     *)
(* class.  The functions take no self, yet their bodies read the name      *)
(* self: Python looks a name up among the function's locals, then the      *)
(* module's globals and the builtins, and raises NameError when it is in   *)
(* none of them.                                                           *)
(***************************************************************************)
ModuleGlobals ==
    {"json", "et", "Song", "SongSerializerBad", "SongSerializerWihoutSolidDependecies",
     "SongSerializerBasicFabric", "SongSerializerStatiocBasicFabric"}

NameDefined(name, locals) == name \in locals \cup ModuleGlobals

NameErrorArg == "name 'self' is not defined"

StatiocBasicFabric_serialize_to_json(s) ==
    json_dumps(<< <<K_id, s.song_id>>, <<K_title, s.title>>, <<K_artist, s.artist>> >>)

StatiocBasicFabric_serialize_to_xml(s) ==
    et_tostring(
        SubElementWithText(
            SubElementWithText(Element(K_song, << <<K_id, s.song_id>> >>), K_title, s.title),
            K_artist, s.artist))

StatiocBasicFabric_get_serializer(format) ==
    IF format = "JSON"
    THEN IF NameDefined("self", {"format"}) THEN Resolved("_serialize_to_json")
         ELSE Unresolved("NameError", NameErrorArg)
    ELSE IF format = "XML"
    THEN IF NameDefined("self", {"format"}) THEN Resolved("_serialize_to_xml")
         ELSE Unresolved("NameError", NameErrorArg)
    ELSE Unresolved("ValueError", format)

StatiocBasicFabric_call(fn, s) ==
    IF fn = "_serialize_to_json" THEN StatiocBasicFabric_serialize_to_json(s)
    ELSE StatiocBasicFabric_serialize_to_xml(s)

StatiocBasicFabric_serialize(s, format) ==
    IF ~NameDefined("self", {"song", "format"})
    THEN Raise("NameError", NameErrorArg)
    ELSE LET serializer == StatiocBasicFabric_get_serializer(format)
         IN  IF serializer.kind = "raise"
             THEN Raise(serializer.exc, serializer.arg)
             ELSE StatiocBasicFabric_call(serializer.fn, s)

(***************************************************************************)
(* The caller.                                                             *)
(***************************************************************************)
Variants == {"Bad", "WihoutSolidDependecies", "BasicFabric", "StatiocBasicFabric"}

\* serialize(song, format) of the given class.
Call(variant, s, format) ==
    CASE variant = "Bad" -> SongSerializerBad_serialize(s, format)
      [] variant = "WihoutSolidDependecies" -> WihoutSolidDependecies_serialize(s, format)
      [] variant = "BasicFabric" -> BasicFabric_serialize(s, format)
      [] variant = "StatiocBasicFabric" -> StatiocBasicFabric_serialize(s, format)

\* Texts of at most n characters.
Texts(n) == UNION {[1..k -> Alphabet] : k \in 0..n}

TotalLen(s) == Len(s.song_id.s) + Len(s.title.s) + Len(s.artist.s)

Ids == {PyStr(x) : x \in Texts(MaxTotalLen)} \cup {PyInt(n) : n \in IntIds}

Titles == {PyStr(x) : x \in Texts(MaxTotalLen)}

\* The Song of the documented example.
Yesterday ==
    Song(PyStr(<<"4", "2">>),
         PyStr(<<"Y", "e", "s", "t", "e", "r", "d", "a", "y">>),
         PyStr(<<"T", "h", "e", " ", "B", "e", "a", "t", "l", "e", "s">>))

Fields == {"song_id", "title", "artist"}

Op(op, variant, format, name, args) ==
    [op |-> op, variant |-> variant, format |-> format, name |-> name, args |-> args]

\* Song.__init__ has run: the caller holds a Song.
Init ==
    /\ \E id \in Ids \cup {Yesterday.song_id}, title, artist \in Titles \cup {Yesterday.title, Yesterday.artist} :
          /\ \/ Song(id, title, artist) = Yesterday
             \/ TotalLen(Song(id, title, artist)) <= MaxTotalLen
          /\ song = Song(id, title, artist)
          /\ last = Op("new", "", "", "", <<id, title, artist>>)
    /\ out = NoOutcome

\* serialize turning an int song_id into its str in place before encoding.
serialize_coercing_id(variant, format) ==
    LET coerced == IF song.song_id.t = "int"
                   THEN [song EXCEPT !.song_id = PyStr(int_repr(song.song_id.n))]
                   ELSE song
    IN  /\ out' = Call(variant, coerced, format)
        /\ last' = Op("serialize", variant, format, "", <<>>)
        /\ song' = coerced

\* The caller calls serialize(song, format) of one of the classes.
serialize(variant, format) ==
    /\ out' = Call(variant, song, format)
    /\ last' = Op("serialize", variant, format, "", <<>>)
    /\ UNCHANGED song

\* The caller assigns an attribute of the Song: song.<name> = value.
setattr(name, value) ==
    /\ TotalLen([song EXCEPT ![name] = value]) <= MaxTotalLen
    /\ song' = [song EXCEPT ![name] = value]
    /\ last' = Op("setattr", "", "", name, <<value>>)
    /\ out' = NoOutcome

\* The texts of each length up to the bound.
TextsOfLen == [k \in 0..MaxTotalLen |-> [1..k -> Alphabet]]

\* The number of characters left for the attribute name of the Song.
Room(name) == MaxTotalLen - (TotalLen(song) - Len(song[name].s))

\* The values an assignment of the attribute name may give within the bound.
Assignable(name) ==
    {PyStr(x) : x \in UNION {TextsOfLen[k] : k \in 0..Room(name)}}
        \cup (IF name = "song_id" THEN {PyInt(n) : n \in IntIds} ELSE {})

Next ==
    \/ \E variant \in Variants, format \in Formats : serialize(variant, format)
    \/ \E name \in Fields : \E value \in Assignable(name) : setattr(name, value)

Spec == Init /\ [][Next]_vars

TypeOK ==
    /\ DOMAIN song = Fields
    /\ out.kind \in {"none", "return", "raise"}

(***************************************************************************)
(* The yardsticks of the round-trip properties: what a standard JSON       *)
(* parser and a standard XML parser read back from a text.  They are       *)
(* written from the formats' grammars, not from the serializers.           *)
(***************************************************************************)
At(s, i) == IF i >= 1 /\ i <= Len(s) THEN s[i] ELSE "EOF"

RECURSIVE SkipWs(_, _)
SkipWs(s, i) == IF At(s, i) \in {" ", "\n"} THEN SkipWs(s, i + 1) ELSE i

DigitChars == {"0", "1", "2", "3", "4", "5", "6", "7", "8", "9"}

DigitValue(c) == CHOOSE d \in 0..9 : Digit(d) = c

Scanned(ok, val, next) == [ok |-> ok, val |-> val, next |-> next]

\* A JSON string from the character after its opening quote.
RECURSIVE ScanJsonString(_, _, _)
ScanJsonString(s, i, acc) ==
    LET c == At(s, i)
    IN  IF c = "EOF" \/ c = "\n" THEN Scanned(FALSE, PyNone, i)
        ELSE IF c = "\"" THEN Scanned(TRUE, PyStr(acc), i + 1)
        ELSE IF c = "\\"
        THEN LET e == At(s, i + 1)
             IN  IF e \in {"\"", "\\", "/"} THEN ScanJsonString(s, i + 2, Append(acc, e))
                 ELSE IF e = "n" THEN ScanJsonString(s, i + 2, Append(acc, "\n"))
                 ELSE Scanned(FALSE, PyNone, i)
        ELSE ScanJsonString(s, i + 1, Append(acc, c))

RECURSIVE ScanDigits(_, _, _)
ScanDigits(s, i, acc) ==
    IF At(s, i) \in DigitChars THEN ScanDigits(s, i + 1, 10 * acc + DigitValue(At(s, i)))
    ELSE Scanned(TRUE, PyInt(acc), i)

\* A JSON integer: an optional minus sign and at least one digit.
ScanJsonInt(s, i) ==
    IF At(s, i) = "-"
    THEN IF At(s, i + 1) \in DigitChars
         THEN LET r == ScanDigits(s, i + 1, 0) IN Scanned(TRUE, PyInt(-r.val.n), r.next)
         ELSE Scanned(FALSE, PyNone, i)
    ELSE IF At(s, i) \in DigitChars THEN ScanDigits(s, i, 0)
    ELSE Scanned(FALSE, PyNone, i)

ScanJsonValue(s, i) ==
    IF At(s, i) = "\"" THEN ScanJsonString(s, i + 1, <<>>) ELSE ScanJsonInt(s, i)

Parsed(ok, items) == [ok |-> ok, items |-> items]

\* The members of a JSON object from its first key to the closing brace, which
\* must end the text.
RECURSIVE ParseJsonMembers(_, _, _)
ParseJsonMembers(s, i, acc) ==
    IF At(s, i) # "\"" THEN Parsed(FALSE, <<>>)
    ELSE LET k == ScanJsonString(s, i + 1, <<>>)
             colon == SkipWs(s, k.next)
             v == ScanJsonValue(s, SkipWs(s, colon + 1))
             after == SkipWs(s, v.next)
         IN  IF ~k.ok \/ At(s, colon) # ":" THEN Parsed(FALSE, <<>>)
             ELSE IF ~v.ok THEN Parsed(FALSE, <<>>)
             ELSE IF At(s, after) = ","
             THEN ParseJsonMembers(s, SkipWs(s, after + 1), Append(acc, <<k.val.s, v.val>>))
             ELSE IF At(s, after) = "}" /\ SkipWs(s, after + 1) = Len(s) + 1
             THEN Parsed(TRUE, Append(acc, <<k.val.s, v.val>>))
             ELSE Parsed(FALSE, <<>>)

\* json.loads of an object: its members in the order of the text.
ParseJson(s) ==
    LET i == SkipWs(s, 1)
    IN  IF At(s, i) # "{" THEN Parsed(FALSE, <<>>)
        ELSE IF At(s, SkipWs(s, i + 1)) = "}"
        THEN Parsed(SkipWs(s, SkipWs(s, i + 1) + 1) = Len(s) + 1, <<>>)
        ELSE ParseJsonMembers(s, SkipWs(s, i + 1), <<>>)

\* An XML name: the characters up to a space, =, /, > or the end.
RECURSIVE ScanXmlName(_, _, _)
ScanXmlName(s, i, acc) ==
    IF At(s, i) \in {" ", "=", "/", ">", "<", "&", "\"", "\n", "EOF"}
    THEN Scanned(acc # <<>>, acc, i)
    ELSE ScanXmlName(s, i + 1, Append(acc, At(s, i)))

RECURSIVE ScanUntilSemicolon(_, _, _)
ScanUntilSemicolon(s, i, acc) ==
    IF At(s, i) = "EOF" THEN Scanned(FALSE, acc, i)
    ELSE IF At(s, i) = ";" THEN Scanned(TRUE, acc, i + 1)
    ELSE ScanUntilSemicolon(s, i + 1, Append(acc, At(s, i)))

\* The character a reference stands for, s[i] being its "&".
ScanXmlReference(s, i) ==
    LET r == ScanUntilSemicolon(s, i + 1, <<>>)
    IN  IF ~r.ok THEN Scanned(FALSE, "", i)
        ELSE IF r.val = <<"a", "m", "p">> THEN Scanned(TRUE, "&", r.next)
        ELSE IF r.val = <<"l", "t">> THEN Scanned(TRUE, "<", r.next)
        ELSE IF r.val = <<"g", "t">> THEN Scanned(TRUE, ">", r.next)
        ELSE IF r.val = <<"q", "u", "o", "t">> THEN Scanned(TRUE, "\"", r.next)
        ELSE IF r.val = <<"a", "p", "o", "s">> THEN Scanned(TRUE, "'", r.next)
        ELSE IF r.val = <<"#", "1", "0">> THEN Scanned(TRUE, "\n", r.next)
        ELSE Scanned(FALSE, "", i)

\* An attribute value from the character after its opening quote.  A literal
\* line break in it is read as a space.
RECURSIVE ScanXmlAttValue(_, _, _)
ScanXmlAttValue(s, i, acc) ==
    LET c == At(s, i)
    IN  IF c \in {"EOF", "<"} THEN Scanned(FALSE, acc, i)
        ELSE IF c = "\"" THEN Scanned(TRUE, acc, i + 1)
        ELSE IF c = "&"
        THEN LET r == ScanXmlReference(s, i)
             IN  IF r.ok THEN ScanXmlAttValue(s, r.next, Append(acc, r.val))
                 ELSE Scanned(FALSE, acc, i)
        ELSE ScanXmlAttValue(s, i + 1, Append(acc, IF c = "\n" THEN " " ELSE c))

\* The attributes of a start tag, up to its > or />.
RECURSIVE ScanXmlAttributes(_, _, _)
ScanXmlAttributes(s, i, acc) ==
    LET j == SkipWs(s, i)
    IN  IF At(s, j) \in {">", "/"} THEN Scanned(TRUE, acc, j)
        ELSE IF j = i THEN Scanned(FALSE, acc, j)
        ELSE LET name == ScanXmlName(s, j, <<>>)
             IN  IF ~name.ok \/ At(s, name.next) # "=" \/ At(s, name.next + 1) # "\""
                 THEN Scanned(FALSE, acc, j)
                 ELSE LET v == ScanXmlAttValue(s, name.next + 2, <<>>)
                      IN  IF ~v.ok \/ \E k \in 1..Len(acc) : acc[k][1] = name.val
                          THEN Scanned(FALSE, acc, j)
                          ELSE ScanXmlAttributes(s, v.next, Append(acc, <<name.val, v.val>>))

XmlElement(tag, attrib, text, children) ==
    [tag |-> tag, attrib |-> attrib, text |-> text, children |-> children]

\* The character data of a leaf element, up to the < that ends it.
RECURSIVE ScanXmlText(_, _, _)
ScanXmlText(s, i, acc) ==
    LET c == At(s, i)
    IN  IF c = "EOF" THEN Scanned(FALSE, acc, i)
        ELSE IF c = "<" THEN Scanned(TRUE, acc, i)
        ELSE IF c = "&"
        THEN LET r == ScanXmlReference(s, i)
             IN  IF r.ok THEN ScanXmlText(s, r.next, Append(acc, r.val))
                 ELSE Scanned(FALSE, acc, i)
        ELSE ScanXmlText(s, i + 1, Append(acc, c))

\* The end tag </tag> at s[i].
XmlEndTag(s, i, tag) ==
    /\ At(s, i) = "<"
    /\ At(s, i + 1) = "/"
    /\ SubSeq(s, i + 2, i + 1 + Len(tag)) = tag
    /\ At(s, SkipWs(s, i + 2 + Len(tag))) = ">"

\* An element whose content is text only: <tag attrs>text</tag> or <tag attrs/>.
ScanXmlLeaf(s, i) ==
    LET bad == Scanned(FALSE, XmlElement(<<>>, <<>>, <<>>, <<>>), i)
        name == ScanXmlName(s, i + 1, <<>>)
        atts == ScanXmlAttributes(s, name.next, <<>>)
    IN  IF At(s, i) # "<" \/ ~name.ok \/ ~atts.ok THEN bad
        ELSE IF At(s, atts.next) = "/"
        THEN IF At(s, atts.next + 1) = ">"
             THEN Scanned(TRUE, XmlElement(name.val, atts.val, <<>>, <<>>), atts.next + 2)
             ELSE bad
        ELSE LET text == ScanXmlText(s, atts.next + 1, <<>>)
             IN  IF text.ok /\ XmlEndTag(s, text.next, name.val)
                 THEN Scanned(TRUE, XmlElement(name.val, atts.val, text.val, <<>>),
                              SkipWs(s, text.next + 2 + Len(name.val)) + 1)
                 ELSE bad

\* The child elements of an element, up to its end tag.
RECURSIVE ScanXmlChildren(_, _, _)
ScanXmlChildren(s, i, acc) ==
    IF At(s, i) = "<" /\ At(s, i + 1) # "/"
    THEN LET child == ScanXmlLeaf(s, i)
         IN  IF child.ok THEN ScanXmlChildren(s, child.next, Append(acc, child.val))
             ELSE Scanned(FALSE, acc, i)
    ELSE Scanned(At(s, i) = "<", acc, i)

\* A document: one root element that holds leaf elements (or text only), and
\* nothing after it.
ParseXml(s) ==
    LET bad == [ok |-> FALSE, root |-> XmlElement(<<>>, <<>>, <<>>, <<>>)]
        name == ScanXmlName(s, 2, <<>>)
        atts == ScanXmlAttributes(s, name.next, <<>>)
    IN  IF At(s, 1) # "<" \/ ~name.ok \/ ~atts.ok THEN bad
        ELSE IF At(s, atts.next) = "/"
        THEN IF At(s, atts.next + 1) = ">" /\ atts.next + 1 = Len(s)
             THEN [ok |-> TRUE, root |-> XmlElement(name.val, atts.val, <<>>, <<>>)]
             ELSE bad
        ELSE LET text == ScanXmlText(s, atts.next + 1, <<>>)
                 kids == ScanXmlChildren(s, text.next, <<>>)
             IN  IF text.ok /\ kids.ok /\ XmlEndTag(s, kids.next, name.val)
                    /\ SkipWs(s, kids.next + 2 + Len(name.val)) = Len(s)
                 THEN [ok |-> TRUE, root |-> XmlElement(name.val, atts.val, text.val, kids.val)]
                 ELSE bad

(***************************************************************************)
(* Properties.                                                             *)
(***************************************************************************)
IsSerialize == last.op = "serialize"

\* The classes whose serialize is a method called on an instance.
InstanceVariants == {"Bad", "WihoutSolidDependecies", "BasicFabric"}

\* The classes that resolve the encoder in _get_serializer.
FactoryVariants == {"BasicFabric", "StatiocBasicFabric"}

Chars(s) == {s[i] : i \in 1..Len(s)}

YesterdayJson ==
    <<"{", "\"", "i", "d", "\"", ":", " ", "\"", "4", "2", "\"", ",", " ",
      "\"", "t", "i", "t", "l", "e", "\"", ":", " ",
      "\"", "Y", "e", "s", "t", "e", "r", "d", "a", "y", "\"", ",", " ",
      "\"", "a", "r", "t", "i", "s", "t", "\"", ":", " ",
      "\"", "T", "h", "e", " ", "B", "e", "a", "t", "l", "e", "s", "\"", "}">>

YesterdayXml ==
    <<"<", "s", "o", "n", "g", " ", "i", "d", "=", "\"", "4", "2", "\"", ">",
      "<", "t", "i", "t", "l", "e", ">",
      "Y", "e", "s", "t", "e", "r", "d", "a", "y",
      "<", "/", "t", "i", "t", "l", "e", ">",
      "<", "a", "r", "t", "i", "s", "t", ">",
      "T", "h", "e", " ", "B", "e", "a", "t", "l", "e", "s",
      "<", "/", "a", "r", "t", "i", "s", "t", ">",
      "<", "/", "s", "o", "n", "g", ">">>

\* C1: for every Song and every format other than exactly 'JSON' or 'XML',
\* serialize raises ValueError and returns no string.
C1_UnsupportedFormatRaises ==
    (IsSerialize /\ last.format \notin Recognized)
        => (out.kind = "raise" /\ out.exc = "ValueError")

\* C1 on the three classes whose serialize is called on an instance.
C1_OnInstanceVariants ==
    (IsSerialize /\ last.format \notin Recognized /\ last.variant \in InstanceVariants)
        => (out.kind = "raise" /\ out.exc = "ValueError")

\* C2: for every Song whose id is a str or an int and whose title and artist
\* are text, serialize with a recognized format returns a string and raises
\* nothing.
C2_RecognizedFormatReturns ==
    (IsSerialize /\ last.format \in Recognized /\ last.variant \in InstanceVariants)
        => out.kind = "return"

\* C2 for the Songs whose id is a str.
C2_ForStrIds ==
    (IsSerialize /\ last.format \in Recognized /\ last.variant \in InstanceVariants
       /\ song.song_id.t = "str")
        => out.kind = "return"

\* C3: serialize(song, 'JSON') returns a JSON object with exactly the keys id,
\* title, artist, in that order, whose values are the Song's song_id, title
\* and artist; for the documented Song it is exactly the documented text.
C3_JsonRoundTrip ==
    (IsSerialize /\ last.format = "JSON" /\ last.variant \in InstanceVariants)
        => /\ out.kind = "return"
           /\ ParseJson(out.value) =
                 Parsed(TRUE, << <<K_id, song.song_id>>, <<K_title, song.title>>,
                                 <<K_artist, song.artist>> >>)
           /\ (song = Yesterday => out.value = YesterdayJson)

C3_Witness ==
    /\ IsSerialize /\ last.format = "JSON" /\ last.variant = "BasicFabric"
    /\ out.kind = "return"
    /\ "\"" \in Chars(song.title.s)
    /\ song.song_id.t = "int"

\* C4: serialize(song, 'XML') returns one root element song whose id attribute
\* is the Song's identifier and whose two children, title then artist, hold
\* the Song's title and artist; for the documented Song it is exactly the
\* documented text.
C4_XmlRoundTrip ==
    (IsSerialize /\ last.format = "XML" /\ last.variant \in InstanceVariants)
        => /\ out.kind = "return"
           /\ ParseXml(out.value) =
                 [ok |-> TRUE,
                  root |-> XmlElement(K_song, << <<K_id, song.song_id.s>> >>, <<>>,
                               << XmlElement(K_title, <<>>, song.title.s, <<>>),
                                  XmlElement(K_artist, <<>>, song.artist.s, <<>>) >>)]
           /\ (song = Yesterday => out.value = YesterdayXml)

\* C4 for the Songs whose id is a str.
C4_ForStrIds ==
    (IsSerialize /\ last.format = "XML" /\ last.variant \in InstanceVariants
       /\ song.song_id.t = "str")
        => /\ out.kind = "return"
           /\ ParseXml(out.value) =
                 [ok |-> TRUE,
                  root |-> XmlElement(K_song, << <<K_id, song.song_id.s>> >>, <<>>,
                               << XmlElement(K_title, <<>>, song.title.s, <<>>),
                                  XmlElement(K_artist, <<>>, song.artist.s, <<>>) >>)]
           /\ (song = Yesterday => out.value = YesterdayXml)

\* C5: when serialize fails because the format is not recognized, the
\* ValueError carries that format as its argument, and what reaches the caller
\* is the exception the dispatcher raised, neither caught nor wrapped.
C5_ErrorCarriesTag ==
    IsSerialize =>
        /\ (out.kind = "raise" /\ out.exc = "ValueError")
              => (out.arg = last.format /\ last.format \notin Recognized)
        /\ (last.variant \in InstanceVariants /\ last.format \notin Recognized)
              => out = Raise("ValueError", last.format)
        /\ (last.variant = "BasicFabric" /\ BasicFabric_get_serializer(last.format).kind = "raise")
              => /\ out.kind = "raise"
                 /\ out.exc = BasicFabric_get_serializer(last.format).exc
                 /\ out.arg = BasicFabric_get_serializer(last.format).arg

C5_Witness ==
    /\ IsSerialize /\ last.variant = "BasicFabric" /\ last.format = "YAML"
    /\ out = Raise("ValueError", "YAML")

\* C6: a call of serialize, whether it returns or raises, leaves the Song's
\* song_id, title and artist as they were.
C6_SerializeLeavesSong ==
    [][last'.op = "serialize" => song' = song]_vars

C6_Witness ==
    /\ IsSerialize /\ last.format = "XML" /\ out.kind = "raise"
    /\ song.song_id.t = "int" /\ song.title.s # <<>>

\* C7 as stated: once constructed, the Song's fields never change.
C7_FieldsImmutable ==
    [][song' = song]_vars

\* C7 amended: the constructor stores its three arguments as song_id, title
\* and artist; afterwards a field changes only when the caller assigns that
\* attribute, and then it holds the assigned value.
C7_FieldsSetByConstructorAndAssignment ==
    /\ last.op = "new"
          => /\ DOMAIN song = Fields
             /\ song.song_id = last.args[1]
             /\ song.title = last.args[2]
             /\ song.artist = last.args[3]
    /\ [][IF last'.op = "setattr"
          THEN song' = [song EXCEPT ![last'.name] = last'.args[1]]
          ELSE song' = song]_vars

C7_Witness ==
    /\ last.op = "setattr" /\ last.name = "title"
    /\ song.title = last.args[1]
    /\ song.title.s # <<>>

GetSerializer(variant, format) ==
    IF variant = "BasicFabric" THEN BasicFabric_get_serializer(format)
    ELSE StatiocBasicFabric_get_serializer(format)

CallResolved(variant, fn, s) ==
    IF variant = "BasicFabric" THEN BasicFabric_call(fn, s)
    ELSE StatiocBasicFabric_call(fn, s)

\* C9: in the factory-method classes _get_serializer(format) returns the JSON
\* encoder exactly when format is 'JSON' and the XML encoder exactly when it
\* is 'XML', and serialize returns what that encoder gives for the Song.
C9_FactoryDispatch ==
    (IsSerialize /\ last.variant \in FactoryVariants)
        => LET r == GetSerializer(last.variant, last.format)
           IN  /\ (r.kind = "return" /\ r.fn = "_serialize_to_json") <=> last.format = "JSON"
               /\ (r.kind = "return" /\ r.fn = "_serialize_to_xml") <=> last.format = "XML"
               /\ r.kind = "return" => out = CallResolved(last.variant, r.fn, song)

\* C9 for SongSerializerBasicFabric alone.
C9_ForBasicFabric ==
    (IsSerialize /\ last.variant = "BasicFabric")
        => LET r == GetSerializer(last.variant, last.format)
           IN  /\ (r.kind = "return" /\ r.fn = "_serialize_to_json") <=> last.format = "JSON"
               /\ (r.kind = "return" /\ r.fn = "_serialize_to_xml") <=> last.format = "XML"
               /\ r.kind = "return" => out = CallResolved(last.variant, r.fn, song)

\* C10: the four classes give the same outcome for the same Song and format.
C10_VariantsAgree ==
    IsSerialize => \A v \in Variants : Call(v, song, last.format) = out

\* C10 among the three classes whose serialize is called on an instance.
C10_InstanceVariantsAgree ==
    (IsSerialize /\ last.variant \in InstanceVariants)
        => \A v \in InstanceVariants : Call(v, song, last.format) = out

====
